---- MODULE Spec2Model ----
(***************************************************************************)
(* Model of the socket.io / Redis fan-out servers of this repository.      *)
(*                                                                         *)
(*   pubsub variant : src/unnamed/part_001 (client src/client.js)          *)
(*   stream variant : src/unnamed/part_002 (client src/client.js)          *)
(*   room   variant : src/unnamed/part_003 (client src/unnamed/part_000)   *)
(*                                                                         *)
(* Every server process runs one variant.  A process is an event loop:     *)
(* each handler body up to its next await is one atomic action.            *)
(***************************************************************************)
EXTENDS Integers, Sequences, FiniteSets, TLC

\* ---------------------------------------------------------------- bounds
MaxSocks == 2        \* socket ids that may ever connect
MaxEvents == 2       \* broker publishes / stream appends issued in one run
MaxFailures == 2     \* injected failures (broker errors, throwing steps)
MaxSignals == 2      \* termination signals delivered to one process

\* ------------------------------------------------------ program constants
REDIS_CHANNEL == "chat-messages"
GLOBAL_ROOM == "global-room"
ReadCount == 10      \* COUNT argument of xreadgroup

Procs == {"p1", "p2"}
SockIds == <<"s1", "s2", "s3", "s4">>   \* socket.id values, in order of use
Socks == {SockIds[i] : i \in 1..MaxSocks}
Variants == {"pubsub", "stream", "room"}

VARIABLES
  variant,           \* which server file the processes run
  live,              \* processes that are running
  exitStatus,        \* [Procs -> SUBSET {0, 1}] status of process.exit; {} while running
  owner,             \* [Socks -> Procs \cup {"none"}] process that accepted the socket
  sockets,           \* [Procs -> SUBSET Socks]  io.sockets.sockets
  failures,          \* failures injected so far
  unhandled,         \* [Procs -> Nat] promise rejections nobody caught
  recv,              \* [Socks -> Seq(payload)] "new-message" seen by the client
  adapterQ,          \* [Procs -> Seq(packet)] adapter broadcasts in flight to a peer
  nPublish,          \* publish / xadd calls issued (accepted or failed)
  \* pubsub variant
  subscribed,        \* [Procs -> {"pending","ok","failed"}] subClient.subscribe
  handlers,          \* [Procs -> SUBSET Socks] onMessage listeners on subClient
  chan,              \* [Procs -> Seq(<<channel, text>>)] messages in flight to subClient
  published,         \* Seq([ev, audience]) publishes accepted by the broker
  \* stream variant
  stream,            \* Seq(fields) the Redis stream; the entry id is its index
  groupCreated,      \* the consumer group exists
  initResult,        \* [Procs -> {"pending","none","BUSYGROUP","other"}] how XGROUP CREATE ended
  lastDelivered,     \* last-delivered id of the consumer group
  pel,               \* pending entries list: set of <<id, consumer>>
  cpc,               \* [Procs -> {"init","read","emit","ack"}] consumer position
  batch,             \* [Procs -> Seq(<<id, fields>>)] entries of the read not yet done
  emitted,           \* [Procs -> Seq(id)] entries whose io.emit returned
  acked,             \* set of <<id, consumer>>: xack calls that succeeded
  threw,             \* set of <<id, consumer, step>>: emit/ack attempts that threw
  skipped,           \* set of <<id, consumer>>: entries dropped with their batch
  readLog,           \* [Procs -> record] last read that followed a failed read
  \* room variant
  rooms,             \* [Procs -> [Socks -> SUBSET room]] adapter.sids of the process
  sseQ,              \* [Procs -> Seq(notification)] serverSideEmit packets in flight
  announced,         \* [Procs -> Seq(notification)] serverSideEmit calls of the process
  remoteLog,         \* [Procs -> Seq(notification)] notifications logged by io.on
  \* lifecycle
  startpc,           \* [Procs -> {"listen","done"}] startServer awaiting listen / over
  listener,          \* [Procs -> {"binding","bound","closed"}] transport listener
  hasParent,         \* [Procs -> BOOLEAN] process.send is defined
  readySent,         \* [Procs -> Nat] "ready" notifications sent
  shutdownInProgress,\* [Procs -> BOOLEAN] the module flag
  sdpc,              \* [Procs -> {"idle","closing","quitting","done"}] gracefulShutdown
  nSignals,          \* [Procs -> Nat] signals handled by gracefulShutdown
  nIgnored,          \* [Procs -> Nat] invocations that returned at the guard
  drainLog,          \* [Procs -> Seq(step)] drain steps performed, in order
  drainFailed,       \* [Procs -> BOOLEAN] a drain step threw or rejected
  listenFailed,      \* [Procs -> BOOLEAN] fastify.listen rejected
  brokerHandles,     \* [Procs -> {"open","closed"}] pubClient and subClient
  forced             \* [Procs -> SUBSET Socks] sockets closed by gracefulShutdown

pubsubVars == <<subscribed, handlers, chan, published>>
streamVars == <<stream, groupCreated, initResult, lastDelivered, pel, cpc, batch, emitted,
                acked, threw, skipped, readLog>>
commonVars == <<variant, live, exitStatus, owner, sockets, failures, unhandled,
                recv, adapterQ, nPublish>>
roomVars == <<rooms, sseQ, announced, remoteLog>>
lifeVarsButForced ==
  <<startpc, listener, hasParent, readySent, shutdownInProgress, sdpc, nSignals,
    nIgnored, drainLog, drainFailed, listenFailed, brokerHandles>>
lifeVars == <<lifeVarsButForced, forced>>
vars == <<commonVars, pubsubVars, streamVars, roomVars, lifeVars>>

\* ------------------------------------------------------------- helpers
Count(seq, x) == Cardinality({i \in 1..Len(seq) : seq[i] = x})

Peers(p) == (Procs \ {p}) \cap live

\* JSON.stringify({id, message}) : the object as its key/value text
JsonStringify(obj) == <<"id", obj.id, "message", obj.message>>

\* JSON.parse of such a text
JsonParse(text) == [id |-> text[2], message |-> text[4]]

ConnectText(s) == <<"New client connected", s>>
DisconnectText(s) == <<"Client disconnected", s>>

\* io.emit("new-message", payload) on process p: every local socket gets the
\* packet now, the Redis adapter forwards it to every peer process.
\* st = [r |-> recv, a |-> adapterQ] before the call; the result is st after.
IoEmit(p, payload, st) ==
  [r |-> [s \in Socks |-> IF s \in sockets[p] THEN Append(st.r[s], payload)
                          ELSE st.r[s]],
   a |-> [q \in Procs |-> IF q \in Peers(p)
                          THEN Append(st.a[q], [data |-> payload, room |-> "",
                                                except |-> ""])
                          ELSE st.a[q]]]

\* Faulty variant of Targets: the excepted socket is not left out.
TargetsWithSender(p, pkt) ==
  {s \in sockets[p] : pkt.room = "" \/ pkt.room \in rooms[p][s]}

\* Local sockets of p a broadcast packet is for: all of them when the packet
\* names no room, else the members of its room, the excepted socket left out.
Targets(p, pkt) ==
  {s \in sockets[p] : /\ pkt.room = "" \/ pkt.room \in rooms[p][s]
                      /\ s # pkt.except}

\* The event loop of p can start a new turn: the process runs and is not inside
\* the synchronous disconnect loop of gracefulShutdown.
CanRun(p) == p \in live /\ sdpc[p] # "disconnecting"

\* The listener hands a new connection to io.on("connection"): it is bound and
\* fastify.close() has not been called.
Accepting(p) == listener[p] = "bound" /\ ~shutdownInProgress[p]

\* An unhandled promise rejection: counted; Node terminates the process with
\* status 1 (default since v15) or only warns (older runtimes / flags).
UnhandledRejection(p, crash) ==
  /\ unhandled' = [unhandled EXCEPT ![p] = @ + 1]
  /\ live' = IF crash THEN live \ {p} ELSE live
  /\ exitStatus' = IF crash THEN [exitStatus EXCEPT ![p] = {1}] ELSE exitStatus

\* ------------------------------------------------------ pubsub variant
\* subClient.subscribe(REDIS_CHANNEL, cb): the callback only logs
SubscribeDone(p, ok) ==
  /\ variant = "pubsub" /\ CanRun(p)
  /\ subscribed[p] = "pending"
  /\ subscribed' = [subscribed EXCEPT ![p] = IF ok THEN "ok" ELSE "failed"]
  /\ UNCHANGED <<commonVars, streamVars, roomVars, lifeVars, handlers, chan, published>>

\* Broker side of PUBLISH: the text is queued to every subscribed process.
BrokerPublish(channel, text) ==
  [q \in Procs |-> IF q \in live /\ subscribed[q] = "ok"
                   THEN Append(chan[q], <<channel, text>>) ELSE chan[q]]

\* Connections registered on subscribed processes when an event is published.
Audience(extra) ==
  {s \in Socks : \E q \in live : subscribed[q] = "ok" /\ s \in sockets[q]}
    \cup extra

\* io.on("connection") of the pubsub server: publish, then register onMessage.
PubSubConnect(p, s, ok, crash) ==
  /\ variant = "pubsub" /\ CanRun(p)
  /\ Accepting(p)
  /\ owner[s] = "none"
  /\ nPublish < MaxEvents
  /\ ok \/ failures < MaxFailures
  /\ owner' = [owner EXCEPT ![s] = p]
  /\ sockets' = [sockets EXCEPT ![p] = @ \cup {s}]
  /\ handlers' = [handlers EXCEPT ![p] = @ \cup {s}]
  /\ nPublish' = nPublish + 1
  /\ IF ok
     THEN /\ chan' = BrokerPublish(REDIS_CHANNEL,
                     JsonStringify([id |-> s, message |-> ConnectText(s)]))
          /\ published' = Append(published,
                 [ev |-> [id |-> s, message |-> ConnectText(s)],
                  audience |-> Audience(IF subscribed[p] = "ok" THEN {s} ELSE {})])
          /\ UNCHANGED <<failures, unhandled, live, exitStatus>>
     ELSE /\ failures' = failures + 1
          /\ UnhandledRejection(p, crash)
          /\ UNCHANGED <<chan, published>>
  /\ UNCHANGED <<variant, recv, adapterQ, subscribed, streamVars, roomVars, lifeVars>>

\* Faulty variant of HandlersAfterDisconnect: the listener stays registered.
HandlersLeaked(p, s) == handlers[p]

\* "message" listeners of subClient after the disconnect handler of s ran
\* subClient.removeListener("message", onMessage) with the closure's onMessage.
HandlersAfterDisconnect(p, s) == handlers[p] \ {s}

\* socket.on("disconnect") of the pubsub server: publish, then removeListener.
PubSubDisconnect(p, s, ok, crash) ==
  /\ variant = "pubsub" /\ p \in live
  /\ s \in sockets[p]
  /\ nPublish < MaxEvents \/ sdpc[p] = "disconnecting"
  /\ ok \/ failures < MaxFailures
  /\ sockets' = [sockets EXCEPT ![p] = @ \ {s}]
  /\ forced' = IF sdpc[p] = "disconnecting"
               THEN [forced EXCEPT ![p] = @ \cup {s}] ELSE forced
  /\ handlers' = [handlers EXCEPT ![p] = HandlersAfterDisconnect(p, s)]
  /\ nPublish' = nPublish + 1
  /\ IF ok
     THEN /\ chan' = BrokerPublish(REDIS_CHANNEL,
                     JsonStringify([id |-> s, message |-> DisconnectText(s)]))
          /\ published' = Append(published,
                 [ev |-> [id |-> s, message |-> DisconnectText(s)],
                  audience |-> Audience({}) \ {s}])
          /\ UNCHANGED <<failures, unhandled, live, exitStatus>>
     ELSE /\ failures' = failures + 1
          /\ UnhandledRejection(p, crash)
          /\ UNCHANGED <<chan, published>>
  /\ UNCHANGED <<variant, owner, recv, adapterQ, subscribed, streamVars, roomVars, lifeVarsButForced>>

\* onMessage(channel, message) run once per registered listener for one
\* "message" event of subClient: each listener does io.emit.
RECURSIVE RunListeners(_, _, _, _)
RunListeners(n, p, payload, st) ==
  IF n = 0 THEN st
  ELSE RunListeners(n - 1, p, payload, IoEmit(p, payload, st))

\* subClient emits "message" for the head of the channel queue of p.
PubSubMessage(p) ==
  /\ variant = "pubsub" /\ CanRun(p)
  /\ chan[p] # <<>>
  /\ LET channel == Head(chan[p])[1]
         payload == JsonParse(Head(chan[p])[2])
         st == IF channel = REDIS_CHANNEL
               THEN RunListeners(Cardinality(handlers[p]), p, payload,
                                 [r |-> recv, a |-> adapterQ])
               ELSE [r |-> recv, a |-> adapterQ]
     IN /\ recv' = st.r
        /\ adapterQ' = st.a
  /\ chan' = [chan EXCEPT ![p] = Tail(@)]
  /\ UNCHANGED <<variant, live, exitStatus, owner, sockets, failures, unhandled,
                 nPublish, subscribed, handlers, published, streamVars, roomVars, lifeVars>>

\* The adapter of p receives a peer's broadcast and emits it to local sockets.
AdapterDeliver(p) ==
  /\ CanRun(p)
  /\ adapterQ[p] # <<>>
  /\ recv' = [s \in Socks |-> IF s \in Targets(p, Head(adapterQ[p]))
                              THEN Append(recv[s], Head(adapterQ[p]).data)
                              ELSE recv[s]]
  /\ adapterQ' = [adapterQ EXCEPT ![p] = Tail(@)]
  /\ UNCHANGED <<variant, live, exitStatus, owner, sockets, failures, unhandled,
                 nPublish, pubsubVars, streamVars, roomVars, lifeVars>>

\* ------------------------------------------------------ stream variant
OddIdx(fields) == {i \in 1..Len(fields) : i % 2 = 1}

\* for (i = 0; i < fields.length; i += 2) message[fields[i]] = fields[i + 1]
FieldsToMessage(fields) ==
  [k \in {fields[i] : i \in OddIdx(fields)} |->
     fields[(CHOOSE i \in OddIdx(fields) :
               /\ fields[i] = k
               /\ \A j \in OddIdx(fields) : j > i => fields[j] # k) + 1]]

\* the flat field list handed to xadd
XaddFields(s, text, ts) == <<"id", s, "message", text, "timestamp", ts>>

\* ids of the stream no consumer has acknowledged; 0 when there is none
Unacked == {i \in 1..Len(stream) : ~ \E q \in Procs : <<i, q>> \in acked}
OldestUnacked == IF Unacked = {} THEN 0
                 ELSE CHOOSE i \in Unacked : \A j \in Unacked : i <= j

\* Faulty variant of AfterCreate: every rejection of XGROUP CREATE is fatal.
AfterCreateStrict(err) == IF err = "none" THEN "read" ELSE "exit"

\* What initializeStream does with the outcome of XGROUP CREATE: it returns,
\* and consumeStream() starts, when the call resolved or rejected with
\* BUSYGROUP; any other rejection ends in process.exit(1).
AfterCreate(err) == IF err \in {"none", "BUSYGROUP"} THEN "read" ELSE "exit"

\* initializeStream: XGROUP CREATE ... "0" MKSTREAM settles with err.  The
\* broker creates the group when there is none and answers BUSYGROUP when
\* there is one; "other" is any other rejection.
InitializeStream(p, err) ==
  /\ variant = "stream" /\ CanRun(p)
  /\ cpc[p] = "init"
  /\ err = "none" => ~groupCreated
  /\ err = "BUSYGROUP" => groupCreated
  /\ err = "other" => failures < MaxFailures
  /\ initResult' = [initResult EXCEPT ![p] = err]
  /\ groupCreated' = (groupCreated \/ err = "none")
  /\ failures' = IF err = "other" THEN failures + 1 ELSE failures
  /\ IF AfterCreate(err) = "read"
     THEN /\ cpc' = [cpc EXCEPT ![p] = "read"]
          /\ UNCHANGED <<live, exitStatus>>
     ELSE /\ live' = live \ {p}
          /\ exitStatus' = [exitStatus EXCEPT ![p] = {1}]
          /\ UNCHANGED cpc
  /\ UNCHANGED <<variant, owner, sockets, unhandled, recv, adapterQ, nPublish,
                 pubsubVars, roomVars,
                 lifeVars, stream, lastDelivered, pel, batch, emitted, acked,
                 threw, skipped, readLog>>

\* io.on("connection") of the stream server: xadd, not awaited.
StreamConnect(p, s, ok, crash) ==
  /\ variant = "stream" /\ CanRun(p)
  /\ cpc[p] # "init"
  /\ Accepting(p)
  /\ owner[s] = "none"
  /\ nPublish < MaxEvents
  /\ ok \/ failures < MaxFailures
  /\ owner' = [owner EXCEPT ![s] = p]
  /\ sockets' = [sockets EXCEPT ![p] = @ \cup {s}]
  /\ nPublish' = nPublish + 1
  /\ IF ok
     THEN /\ stream' = Append(stream, XaddFields(s, ConnectText(s), nPublish))
          /\ UNCHANGED <<failures, unhandled, live, exitStatus>>
     ELSE /\ failures' = failures + 1
          /\ UnhandledRejection(p, crash)
          /\ UNCHANGED stream
  /\ UNCHANGED <<variant, recv, adapterQ, pubsubVars, roomVars,
                 lifeVars, groupCreated, initResult, lastDelivered,
                 pel, cpc, batch, emitted, acked, threw, skipped, readLog>>

\* socket.on("disconnect") of the stream server: await xadd, nothing catches.
StreamDisconnect(p, s, ok, crash) ==
  /\ variant = "stream" /\ p \in live
  /\ s \in sockets[p]
  /\ nPublish < MaxEvents \/ sdpc[p] = "disconnecting"
  /\ ok \/ failures < MaxFailures
  /\ sockets' = [sockets EXCEPT ![p] = @ \ {s}]
  /\ forced' = IF sdpc[p] = "disconnecting"
               THEN [forced EXCEPT ![p] = @ \cup {s}] ELSE forced
  /\ nPublish' = nPublish + 1
  /\ IF ok
     THEN /\ stream' = Append(stream, XaddFields(s, DisconnectText(s), nPublish))
          /\ UNCHANGED <<failures, unhandled, live, exitStatus>>
     ELSE /\ failures' = failures + 1
          /\ UnhandledRejection(p, crash)
          /\ UNCHANGED stream
  /\ UNCHANGED <<variant, owner, recv, adapterQ, pubsubVars, roomVars,
                 lifeVarsButForced, groupCreated, initResult,
                 lastDelivered, pel, cpc, batch, emitted, acked, threw, skipped,
                 readLog>>

\* Entries XREADGROUP ... COUNT 10 ... ">" hands out: the never-delivered ones.
NewIds == {i \in 1..Len(stream) : i > lastDelivered /\ i <= lastDelivered + ReadCount}

RECURSIVE IdsToBatch(_, _)
IdsToBatch(lo, hi) ==
  IF lo > hi THEN <<>> ELSE <<<<lo, stream[lo]>>>> \o IdsToBatch(lo + 1, hi)

\* Faulty variant of DeliveredUpTo: the read does not move the group's
\* last-delivered id, as a read from a fixed id instead of ">" would.
DeliveredUpToStale(n) == lastDelivered

\* Last-delivered id of the group after a read with ">" handed out n entries.
DeliveredUpTo(n) == lastDelivered + n

\* One xreadgroup of the consumer loop.  outcome "ok": the batch arrives;
\* "error": the broker rejects or is unreachable; "lost": the broker served the
\* read and died before the reply arrived.  Errors are caught and logged.
XReadGroup(p, outcome) ==
  /\ variant = "stream" /\ CanRun(p)
  /\ cpc[p] = "read"
  /\ outcome = "ok" \/ failures < MaxFailures
  /\ outcome # "error" => NewIds # {}
  /\ LET hi == lastDelivered + Cardinality(NewIds)
     IN /\ IF outcome = "error"
           THEN UNCHANGED <<lastDelivered, pel>>
           ELSE /\ lastDelivered' = DeliveredUpTo(Cardinality(NewIds))
                /\ pel' = pel \cup {<<i, p>> : i \in NewIds}
        /\ IF outcome = "ok"
           THEN /\ batch' = [batch EXCEPT ![p] = IdsToBatch(lastDelivered + 1, hi)]
                /\ cpc' = [cpc EXCEPT ![p] = "emit"]
                /\ readLog' = IF readLog[p].afterFail
                              THEN [readLog EXCEPT ![p] =
                                      [afterFail |-> FALSE,
                                       first |-> lastDelivered + 1,
                                       oldest |-> OldestUnacked]]
                              ELSE readLog
                /\ UNCHANGED failures
           ELSE /\ failures' = failures + 1
                /\ readLog' = [readLog EXCEPT ![p].afterFail = TRUE]
                /\ UNCHANGED <<batch, cpc>>
  /\ UNCHANGED <<variant, live, exitStatus, owner, sockets, unhandled, recv,
                 adapterQ, nPublish, pubsubVars, roomVars,
                 lifeVars, stream, groupCreated, initResult, emitted,
                 acked, threw, skipped>>

BatchIds(b) == {b[i][1] : i \in 1..Len(b)}

\* Faulty variant of AfterEmit: a throwing io.emit is swallowed and the loop goes on.
AfterEmitSwallowed(thrown) == "ack"

\* Position of the loop after io.emit of an entry returned or threw.
AfterEmit(thrown) == IF thrown THEN "read" ELSE "ack"

\* Faulty variant of RegistryAfterEmit: the fan-out drops the connection the
\* message is about from the local connections.
RegistryForgetsSender(p, message) == sockets[p] \ {message.id}

\* Local connections of p after io.emit("new-message", message): the loop body
\* only builds the message, emits it and acknowledges the id.
RegistryAfterEmit(p, message) == sockets[p]

\* io.emit("new-message", message) for the head of the batch.
EmitEntry(p, thrown) ==
  /\ variant = "stream" /\ CanRun(p)
  /\ cpc[p] = "emit"
  /\ ~thrown \/ failures < MaxFailures
  /\ LET id == Head(batch[p])[1]
         message == FieldsToMessage(Head(batch[p])[2])
         st == IoEmit(p, message, [r |-> recv, a |-> adapterQ])
     IN IF thrown
        THEN /\ failures' = failures + 1
             /\ threw' = threw \cup {<<id, p, "emit">>}
             /\ IF AfterEmit(thrown) = "read"
                THEN /\ skipped' = skipped \cup
                                     {<<i, p>> : i \in BatchIds(Tail(batch[p]))}
                     /\ batch' = [batch EXCEPT ![p] = <<>>]
                ELSE UNCHANGED <<skipped, batch>>
             /\ UNCHANGED <<recv, adapterQ, emitted>>
        ELSE /\ recv' = st.r
             /\ adapterQ' = st.a
             /\ emitted' = [emitted EXCEPT ![p] = Append(@, id)]
             /\ UNCHANGED <<failures, threw, skipped, batch>>
  /\ cpc' = [cpc EXCEPT ![p] = AfterEmit(thrown)]
  /\ sockets' = [sockets EXCEPT ![p] =
                  RegistryAfterEmit(p, FieldsToMessage(Head(batch[p])[2]))]
  /\ UNCHANGED <<variant, live, exitStatus, owner, unhandled, nPublish,
                 pubsubVars, roomVars,
                 lifeVars, stream, groupCreated, initResult, lastDelivered, pel, acked,
                 readLog>>

\* await xack(STREAM_KEY, CONSUMER_GROUP, id) for the head of the batch.
AckEntry(p, ok) ==
  /\ variant = "stream" /\ CanRun(p)
  /\ cpc[p] = "ack"
  /\ ok \/ failures < MaxFailures
  /\ LET id == Head(batch[p])[1]
     IN IF ok
        THEN /\ pel' = {e \in pel : e[1] # id}
             /\ acked' = acked \cup {<<id, p>>}
             /\ batch' = [batch EXCEPT ![p] = Tail(@)]
             /\ cpc' = [cpc EXCEPT ![p] = IF Tail(batch[p]) = <<>> THEN "read"
                                          ELSE "emit"]
             /\ UNCHANGED <<failures, threw, skipped>>
        ELSE /\ failures' = failures + 1
             /\ threw' = threw \cup {<<id, p, "ack">>}
             /\ skipped' = skipped \cup {<<i, p>> : i \in BatchIds(Tail(batch[p]))}
             /\ batch' = [batch EXCEPT ![p] = <<>>]
             /\ cpc' = [cpc EXCEPT ![p] = "read"]
             /\ UNCHANGED <<pel, acked>>
  /\ UNCHANGED <<variant, live, exitStatus, owner, sockets, unhandled, recv,
                 adapterQ, nPublish, pubsubVars, roomVars,
                 lifeVars, stream, groupCreated, initResult,
                 lastDelivered, emitted, readLog>>

\* ------------------------------------------------------ room variant
Notification(action, room, id) == [action |-> action, room |-> room, id |-> id]

\* Faulty variant of AdapterRoomEvent: only the join listener announces.
AdapterRoomEventJoinOnly(action, room, id) ==
  IF room # id /\ action = "join-room"
  THEN <<Notification(action, room, id)>> ELSE <<>>

\* adapter.on("join-room" / "leave-room", (room, id)): announce unless the room
\* is the socket's own.  The result is the serverSideEmit packets produced.
AdapterRoomEvent(action, room, id) ==
  IF room # id THEN <<Notification(action, room, id)>> ELSE <<>>

\* io.serverSideEmit: the packets go to every peer process.
ServerSideEmit(p, pkts) ==
  /\ announced' = [announced EXCEPT ![p] = @ \o pkts]
  /\ sseQ' = [q \in Procs |-> IF q \in Peers(p) THEN sseQ[q] \o pkts ELSE sseQ[q]]

\* socket.to(GLOBAL_ROOM).emit(event, data): members of the room but the sender.
SocketToRoomEmit(p, s, data) ==
  LET pkt == [data |-> data, room |-> GLOBAL_ROOM, except |-> s]
  IN /\ recv' = [c \in Socks |-> IF c \in Targets(p, pkt) THEN Append(recv[c], data)
                                 ELSE recv[c]]
     /\ adapterQ' = [q \in Procs |-> IF q \in Peers(p) THEN Append(adapterQ[q], pkt)
                                     ELSE adapterQ[q]]

\* io.on("connection") of the room server.  The socket is in its own room when
\* the handler runs; socket.join(GLOBAL_ROOM) fires the adapter's join-room.
RoomConnect(p, s) ==
  /\ variant = "room" /\ CanRun(p)
  /\ Accepting(p)
  /\ owner[s] = "none"
  /\ owner' = [owner EXCEPT ![s] = p]
  /\ sockets' = [sockets EXCEPT ![p] = @ \cup {s}]
  /\ rooms' = [rooms EXCEPT ![p][s] = {s, GLOBAL_ROOM}]
  /\ ServerSideEmit(p, AdapterRoomEvent("join-room", s, s)
                       \o AdapterRoomEvent("join-room", GLOBAL_ROOM, s))
  /\ SocketToRoomEmit(p, s, [event |-> "user-joined", id |-> s])
  /\ UNCHANGED <<variant, live, exitStatus, failures, unhandled, nPublish,
                 pubsubVars, streamVars, remoteLog, lifeVars>>

\* A socket closes: it leaves its rooms (adapter leave-room events), then the
\* "disconnect" handler of the room server runs.
RoomDisconnect(p, s) ==
  /\ variant = "room" /\ p \in live
  /\ s \in sockets[p]
  /\ sockets' = [sockets EXCEPT ![p] = @ \ {s}]
  /\ forced' = IF sdpc[p] = "disconnecting"
               THEN [forced EXCEPT ![p] = @ \cup {s}] ELSE forced
  /\ rooms' = [rooms EXCEPT ![p][s] = {}]
  /\ ServerSideEmit(p,
       (IF s \in rooms[p][s] THEN AdapterRoomEvent("leave-room", s, s) ELSE <<>>)
       \o (IF GLOBAL_ROOM \in rooms[p][s]
           THEN AdapterRoomEvent("leave-room", GLOBAL_ROOM, s) ELSE <<>>))
  /\ SocketToRoomEmit(p, s, [event |-> "user-left", id |-> s])
  /\ UNCHANGED <<variant, live, exitStatus, owner, failures, unhandled, nPublish,
                 pubsubVars, streamVars, remoteLog, lifeVarsButForced>>

\* Faulty variant of RemoteNotifyOut: the handler forwards what it received.
RemoteNotifyEcho(p, n) == <<n>>

\* serverSideEmit packets the io.on("join-room" / "leave-room") handler of p
\* sends for a received notification: it only logs.
RemoteNotifyOut(p, n) == <<>>

\* Faulty variant of RegistryAfterRemote: the remote socket is put into the
\* local room table.
RegistryWithRemote(p, n) ==
  [rooms[p] EXCEPT ![n.id] = IF n.action = "join-room" THEN @ \cup {n.room}
                             ELSE @ \ {n.room}]

\* Room table of p after its io.on("join-room" / "leave-room") handler ran for
\* notification n: the handler calls console.log and nothing else.
RegistryAfterRemote(p, n) == rooms[p]

\* io.on("join-room") / io.on("leave-room"): a peer's notification arrives.
OnServerSideEvent(p) ==
  /\ variant = "room" /\ CanRun(p)
  /\ sseQ[p] # <<>>
  /\ remoteLog' = [remoteLog EXCEPT ![p] = Append(@, Head(sseQ[p]))]
  /\ rooms' = [rooms EXCEPT ![p] = RegistryAfterRemote(p, Head(sseQ[p]))]
  /\ LET out == RemoteNotifyOut(p, Head(sseQ[p]))
     IN /\ announced' = [announced EXCEPT ![p] = @ \o out]
        /\ sseQ' = [q \in Procs |->
                      IF q = p THEN Tail(sseQ[p])
                      ELSE IF q \in Peers(p) THEN sseQ[q] \o out ELSE sseQ[q]]
  /\ UNCHANGED <<commonVars, pubsubVars, streamVars, lifeVars>>

\* ------------------------------------------------------------ lifecycle
\* process.exit(status)
Exit(p, status) ==
  /\ live' = live \ {p}
  /\ exitStatus' = [exitStatus EXCEPT ![p] = {status}]

\* Status startServer exits with when fastify.listen rejects.
StartupExit == 1

\* startServer: the awaited fastify.listen settles.  ok: the listener is bound,
\* "ready" goes to the parent if there is one; else log and process.exit(1).
ListenDone(p, ok) ==
  /\ CanRun(p)
  /\ startpc[p] = "listen"
  /\ variant = "stream" => cpc[p] # "init"
  /\ ok => listener[p] = "binding"
  /\ ~ok => failures < MaxFailures
  /\ startpc' = [startpc EXCEPT ![p] = "done"]
  /\ IF ok
     THEN /\ listener' = [listener EXCEPT ![p] = "bound"]
          /\ readySent' = [readySent EXCEPT ![p] = IF hasParent[p] THEN @ + 1 ELSE @]
          /\ UNCHANGED <<live, exitStatus, failures, listenFailed>>
     ELSE /\ listenFailed' = [listenFailed EXCEPT ![p] = TRUE]
          /\ failures' = failures + 1
          /\ Exit(p, StartupExit)
          /\ UNCHANGED <<listener, readySent>>
  /\ UNCHANGED <<forced, variant, owner, sockets, unhandled, recv, adapterQ, nPublish,
                 pubsubVars, streamVars, roomVars, hasParent, shutdownInProgress,
                 sdpc, nSignals, nIgnored, drainLog, drainFailed, brokerHandles>>

\* Faulty variant of GuardPasses: the flag is not consulted.
GuardPassesAlways(p) == TRUE

\* if (shutdownInProgress) { warn; return; } : the invocation goes on when the
\* flag is not set.
GuardPasses(p) == ~shutdownInProgress[p]

\* SIGINT / SIGTERM: gracefulShutdown(signal) up to the forEach over the sockets.
Signal(p) ==
  /\ CanRun(p)
  /\ variant = "stream" => cpc[p] # "init"
  /\ nSignals[p] < MaxSignals
  /\ nSignals' = [nSignals EXCEPT ![p] = @ + 1]
  /\ IF GuardPasses(p)
     THEN /\ shutdownInProgress' = [shutdownInProgress EXCEPT ![p] = TRUE]
          /\ sdpc' = [sdpc EXCEPT ![p] = "disconnecting"]
          /\ drainLog' = [drainLog EXCEPT ![p] = Append(@, "begin")]
          /\ UNCHANGED nIgnored
     ELSE /\ nIgnored' = [nIgnored EXCEPT ![p] = @ + 1]
          /\ UNCHANGED <<shutdownInProgress, sdpc, drainLog>>
  /\ UNCHANGED <<forced, commonVars, pubsubVars, streamVars, roomVars, startpc, listener,
                 hasParent, readySent, drainFailed, listenFailed, brokerHandles>>

\* Faulty variant of DrainExit: the catch block exits with 0 as well.
DrainExitAlwaysZero(ok) == 0

\* Status gracefulShutdown exits with: 0 at the end of the try block, 1 in catch.
DrainExit(ok) == IF ok THEN 0 ELSE 1

\* socket.disconnect(true) throws inside the forEach: catch, process.exit(1).
DisconnectThrows(p) ==
  /\ p \in live
  /\ sdpc[p] = "disconnecting"
  /\ failures < MaxFailures
  /\ failures' = failures + 1
  /\ drainFailed' = [drainFailed EXCEPT ![p] = TRUE]
  /\ Exit(p, DrainExit(FALSE))
  /\ UNCHANGED <<forced, variant, owner, sockets, unhandled, recv, adapterQ, nPublish,
                 pubsubVars, streamVars, roomVars, startpc, listener, hasParent,
                 readySent, shutdownInProgress, sdpc, nSignals, nIgnored, drainLog,
                 listenFailed, brokerHandles>>

\* The forEach is over (every socket went through its disconnect handler):
\* fastify.close() is called and awaited.
CloseCalled(p) ==
  /\ p \in live
  /\ sdpc[p] = "disconnecting"
  /\ sockets[p] = {}
  /\ sdpc' = [sdpc EXCEPT ![p] = "closing"]
  /\ drainLog' = [drainLog EXCEPT ![p] = Append(@, "disconnect")]
  /\ UNCHANGED <<forced, commonVars, pubsubVars, streamVars, roomVars, startpc, listener,
                 hasParent, readySent, shutdownInProgress, nSignals, nIgnored,
                 drainFailed, listenFailed, brokerHandles>>

\* The drain has a step that quits pubClient and subClient: the pubsub and the
\* stream server have it, the room server goes from close to process.exit(0).
HasQuitStep == variant \in {"pubsub", "stream"}

\* await fastify.close() settles.
CloseDone(p, ok) ==
  /\ CanRun(p)
  /\ sdpc[p] = "closing"
  /\ ~ok => failures < MaxFailures
  /\ IF ok
     THEN /\ listener' = [listener EXCEPT ![p] = "closed"]
          /\ IF HasQuitStep
             THEN /\ sdpc' = [sdpc EXCEPT ![p] = "quitting"]
                  /\ drainLog' = [drainLog EXCEPT ![p] = Append(@, "close")]
                  /\ UNCHANGED <<live, exitStatus>>
             ELSE /\ sdpc' = [sdpc EXCEPT ![p] = "done"]
                  /\ drainLog' = [drainLog EXCEPT ![p] = @ \o <<"close", "exit">>]
                  /\ Exit(p, DrainExit(TRUE))
          /\ UNCHANGED <<failures, drainFailed>>
     ELSE /\ failures' = failures + 1
          /\ drainFailed' = [drainFailed EXCEPT ![p] = TRUE]
          /\ Exit(p, DrainExit(FALSE))
          /\ UNCHANGED <<listener, sdpc, drainLog>>
  /\ UNCHANGED <<forced, variant, owner, sockets, unhandled, recv, adapterQ, nPublish,
                 pubsubVars, streamVars, roomVars, startpc, hasParent, readySent,
                 shutdownInProgress, nSignals, nIgnored, listenFailed,
                 brokerHandles>>

\* await Promise.all([pubClient.quit(), subClient.quit()]) settles.
QuitDone(p, ok) ==
  /\ CanRun(p)
  /\ sdpc[p] = "quitting"
  /\ ~ok => failures < MaxFailures
  /\ IF ok
     THEN /\ brokerHandles' = [brokerHandles EXCEPT ![p] = "closed"]
          /\ sdpc' = [sdpc EXCEPT ![p] = "done"]
          /\ drainLog' = [drainLog EXCEPT ![p] = @ \o <<"quit", "exit">>]
          /\ Exit(p, DrainExit(TRUE))
          /\ UNCHANGED <<failures, drainFailed>>
     ELSE /\ failures' = failures + 1
          /\ drainFailed' = [drainFailed EXCEPT ![p] = TRUE]
          /\ Exit(p, DrainExit(FALSE))
          /\ UNCHANGED <<brokerHandles, sdpc, drainLog>>
  /\ UNCHANGED <<forced, variant, owner, sockets, unhandled, recv, adapterQ, nPublish,
                 pubsubVars, streamVars, roomVars, startpc, listener, hasParent,
                 readySent, shutdownInProgress, nSignals, nIgnored, listenFailed>>

InitShared ==
  /\ exitStatus = [p \in Procs |-> {}]
  /\ owner = [s \in Socks |-> "none"]
  /\ sockets = [p \in Procs |-> {}]
  /\ failures = 0
  /\ unhandled = [p \in Procs |-> 0]
  /\ recv = [s \in Socks |-> <<>>]
  /\ adapterQ = [p \in Procs |-> <<>>]
  /\ nPublish = 0

InitPubSubVars ==
  /\ subscribed = [p \in Procs |-> "pending"]
  /\ handlers = [p \in Procs |-> {}]
  /\ chan = [p \in Procs |-> <<>>]
  /\ published = <<>>

InitStreamVars ==
  /\ stream = <<>>
  /\ initResult = [p \in Procs |-> "pending"]
  /\ lastDelivered = 0
  /\ pel = {}
  /\ cpc = [p \in Procs |-> "init"]
  /\ batch = [p \in Procs |-> <<>>]
  /\ emitted = [p \in Procs |-> <<>>]
  /\ acked = {}
  /\ threw = {}
  /\ skipped = {}
  /\ readLog = [p \in Procs |-> [afterFail |-> FALSE, first |-> 0, oldest |-> 0]]

InitRoomVars ==
  /\ rooms = [p \in Procs |-> [s \in Socks |-> {}]]
  /\ sseQ = [p \in Procs |-> <<>>]
  /\ announced = [p \in Procs |-> <<>>]
  /\ remoteLog = [p \in Procs |-> <<>>]

\* Lifecycle of a process that is Ready: listening, no signal received.
InitReady ==
  /\ startpc = [p \in Procs |-> "done"]
  /\ listener = [p \in Procs |-> "bound"]
  /\ hasParent = [p \in Procs |-> FALSE]
  /\ readySent = [p \in Procs |-> 0]
  /\ shutdownInProgress = [p \in Procs |-> FALSE]
  /\ sdpc = [p \in Procs |-> "idle"]
  /\ nSignals = [p \in Procs |-> 0]
  /\ nIgnored = [p \in Procs |-> 0]
  /\ drainLog = [p \in Procs |-> <<>>]
  /\ drainFailed = [p \in Procs |-> FALSE]
  /\ listenFailed = [p \in Procs |-> FALSE]
  /\ brokerHandles = [p \in Procs |-> "open"]
  /\ forced = [p \in Procs |-> {}]

\* No consumer group exists on the broker.
InitNoGroup == groupCreated = FALSE

InitVariantVars ==
  InitPubSubVars /\ InitStreamVars /\ InitNoGroup /\ InitRoomVars

\* Every process of the cluster is up.
InitCommon == live = Procs /\ InitShared

\* One process is started, its peer is not.
InitStarting == live = {"p1"} /\ InitShared

\* Lifecycle right after startServer() was called: fastify.listen is pending.
InitBinding ==
  /\ startpc = [p \in Procs |-> "listen"]
  /\ listener = [p \in Procs |-> "binding"]
  /\ \E b \in BOOLEAN : hasParent = [p \in Procs |-> b]
  /\ readySent = [p \in Procs |-> 0]
  /\ shutdownInProgress = [p \in Procs |-> FALSE]
  /\ sdpc = [p \in Procs |-> "idle"]
  /\ nSignals = [p \in Procs |-> 0]
  /\ nIgnored = [p \in Procs |-> 0]
  /\ drainLog = [p \in Procs |-> <<>>]
  /\ drainFailed = [p \in Procs |-> FALSE]
  /\ listenFailed = [p \in Procs |-> FALSE]
  /\ brokerHandles = [p \in Procs |-> "open"]
  /\ forced = [p \in Procs |-> {}]

InitPubSub == variant = "pubsub" /\ InitCommon /\ InitVariantVars /\ InitReady

NextPubSub ==
  \/ \E p \in Procs, ok \in BOOLEAN : SubscribeDone(p, ok)
  \/ \E p \in Procs, s \in Socks, ok \in BOOLEAN, crash \in BOOLEAN :
        PubSubConnect(p, s, ok, crash)
  \/ \E p \in Procs, s \in Socks, ok \in BOOLEAN, crash \in BOOLEAN :
        PubSubDisconnect(p, s, ok, crash)
  \/ \E p \in Procs : PubSubMessage(p)
  \/ \E p \in Procs : AdapterDeliver(p)

SpecPubSub == InitPubSub /\ [][NextPubSub]_vars

\* Stream servers that are Ready: the group exists, every consumer loop is at
\* its xreadgroup, nothing was appended yet.
InitStreamReady ==
  /\ stream = <<>>
  /\ groupCreated = TRUE
  /\ initResult = [p \in Procs |-> IF p = "p1" THEN "none" ELSE "BUSYGROUP"]
  /\ lastDelivered = 0
  /\ pel = {}
  /\ cpc = [p \in Procs |-> "read"]
  /\ batch = [p \in Procs |-> <<>>]
  /\ emitted = [p \in Procs |-> <<>>]
  /\ acked = {}
  /\ threw = {}
  /\ skipped = {}
  /\ readLog = [p \in Procs |-> [afterFail |-> FALSE, first |-> 0, oldest |-> 0]]

InitStream ==
  /\ variant = "stream"
  /\ InitCommon /\ InitPubSubVars /\ InitRoomVars /\ InitStreamReady /\ InitReady

ConsumerStep(p) ==
  \/ XReadGroup(p, "ok")
  \/ EmitEntry(p, FALSE)
  \/ AckEntry(p, TRUE)

NextStream ==
  \/ \E p \in Procs, s \in Socks, ok \in BOOLEAN, crash \in BOOLEAN :
        StreamConnect(p, s, ok, crash)
  \/ \E p \in Procs, s \in Socks, ok \in BOOLEAN, crash \in BOOLEAN :
        StreamDisconnect(p, s, ok, crash)
  \/ \E p \in Procs, outcome \in {"ok", "error", "lost"} : XReadGroup(p, outcome)
  \/ \E p \in Procs, thrown \in BOOLEAN : EmitEntry(p, thrown)
  \/ \E p \in Procs, ok \in BOOLEAN : AckEntry(p, ok)
  \/ \E p \in Procs : AdapterDeliver(p)

SpecStream == InitStream /\ [][NextStream]_vars

InitRoom == variant = "room" /\ InitCommon /\ InitVariantVars /\ InitReady

NextRoom ==
  \/ \E p \in Procs, s \in Socks : RoomConnect(p, s)
  \/ \E p \in Procs, s \in Socks : RoomDisconnect(p, s)
  \/ \E p \in Procs : OnServerSideEvent(p)
  \/ \E p \in Procs : AdapterDeliver(p)

SpecRoom == InitRoom /\ [][NextRoom]_vars

\* A stream server may start against a broker on which an earlier process
\* already created the group.
InitGroup == groupCreated \in (IF variant = "stream" THEN BOOLEAN ELSE {FALSE})

InitLife ==
  /\ variant \in Variants
  /\ InitStarting /\ InitPubSubVars /\ InitStreamVars /\ InitRoomVars
  /\ InitGroup /\ InitBinding

NextLife ==
  \/ \E p \in Procs, ok \in BOOLEAN : ListenDone(p, ok)
  \/ \E p \in Procs : Signal(p)
  \/ \E p \in Procs : DisconnectThrows(p)
  \/ \E p \in Procs : CloseCalled(p)
  \/ \E p \in Procs, ok \in BOOLEAN : CloseDone(p, ok)
  \/ \E p \in Procs, ok \in BOOLEAN : QuitDone(p, ok)
  \/ \E p \in Procs, ok \in BOOLEAN : SubscribeDone(p, ok)
  \/ \E p \in Procs, s \in Socks, ok \in BOOLEAN, crash \in BOOLEAN :
        PubSubConnect(p, s, ok, crash)
  \/ \E p \in Procs, s \in Socks, ok \in BOOLEAN, crash \in BOOLEAN :
        PubSubDisconnect(p, s, ok, crash)
  \/ \E p \in Procs : PubSubMessage(p)
  \/ \E p \in Procs, err \in {"none", "BUSYGROUP", "other"} :
        InitializeStream(p, err)
  \/ \E p \in Procs, s \in Socks, ok \in BOOLEAN, crash \in BOOLEAN :
        StreamConnect(p, s, ok, crash)
  \/ \E p \in Procs, s \in Socks, ok \in BOOLEAN, crash \in BOOLEAN :
        StreamDisconnect(p, s, ok, crash)
  \/ \E p \in Procs, outcome \in {"ok", "error", "lost"} : XReadGroup(p, outcome)
  \/ \E p \in Procs, thrown \in BOOLEAN : EmitEntry(p, thrown)
  \/ \E p \in Procs, ok \in BOOLEAN : AckEntry(p, ok)
  \/ \E p \in Procs, s \in Socks : RoomConnect(p, s)
  \/ \E p \in Procs, s \in Socks : RoomDisconnect(p, s)

SpecLife == InitLife /\ [][NextLife]_vars

\* The event loop keeps running the consumer loop of a live process, and the
\* adapter keeps delivering.
FairStream ==
  /\ SpecStream
  /\ \A p \in Procs : WF_vars(ConsumerStep(p)) /\ WF_vars(AdapterDeliver(p))

\* ================================================================ claims
FirstIdx(seq, x) ==
  CHOOSE k \in 1..Len(seq) : seq[k] = x /\ \A m \in 1..(k - 1) : seq[m] # x

Quiet == \A p \in Procs : chan[p] = <<>> /\ adapterQ[p] = <<>>

StillConnected(c) == owner[c] \in live /\ c \in sockets[owner[c]]

\* C1: every connection registered on a subscribed process when an event is
\* published receives exactly one "new-message" copy of it (never more than
\* one; exactly one once nothing is in flight and the connection is still
\* attached), and the copies of two events of the same publisher arrive in
\* publish order.
C1_ExactlyOneCopyInOrder ==
  \A i \in 1..Len(published) : \A c \in published[i].audience :
    /\ Count(recv[c], published[i].ev) <= 1
    /\ (Quiet /\ StillConnected(c)) => Count(recv[c], published[i].ev) = 1
    /\ \A j \in (i + 1)..Len(published) :
         ( /\ c \in published[j].audience
           /\ owner[published[i].ev.id] = owner[published[j].ev.id]
           /\ Count(recv[c], published[i].ev) > 0
           /\ Count(recv[c], published[j].ev) > 0 )
         => FirstIdx(recv[c], published[i].ev) < FirstIdx(recv[c], published[j].ev)

FailedOnce(id) == \E p \in Procs, step \in {"emit", "ack"} : <<id, p, step>> \in threw

Acked(id) == \E q \in Procs : <<id, q>> \in acked

\* C2: an entry whose fan-out or acknowledgment threw is later delivered again
\* and ends up acknowledged, as long as some consumer of the group is live.
C2_AtLeastOnce ==
  \A id \in 1..MaxEvents : FailedOnce(id) ~> (Acked(id) \/ live = {})

\* C3: an entry is acknowledged by a consumer only after the io.emit of that
\* entry returned on that consumer; an entry whose io.emit threw is not
\* acknowledged by that consumer, and the loop is about to acknowledge only an
\* entry it has fanned out.
C3_AckAfterFanout ==
  /\ \A e \in acked : /\ Count(emitted[e[2]], e[1]) >= 1
                      /\ <<e[1], e[2], "emit">> \notin threw
  /\ \A p \in Procs : cpc[p] = "ack" =>
        /\ batch[p] # <<>>
        /\ Count(emitted[p], Head(batch[p])[1]) >= 1

\* C3 witness: one entry was acknowledged and the fan-out of another threw.
C3_Witness == acked # {} /\ \E x \in threw : x[3] = "emit"

\* C4: every notification a process sends with serverSideEmit is about one of
\* its own sockets and is sent once; handling a peer's notification sends none.
C4_NoEcho ==
  \A p \in Procs : \A i \in 1..Len(announced[p]) :
    /\ owner[announced[p][i].id] = p
    /\ Count(announced[p], announced[p][i]) = 1

\* C4 witness: a process has handled a peer's join and a peer's leave.
C4_Witness ==
  \E p \in Procs :
    /\ \E i \in 1..Len(remoteLog[p]) : remoteLog[p][i].action = "join-room"
    /\ \E i \in 1..Len(remoteLog[p]) : remoteLog[p][i].action = "leave-room"

DrainSteps == {"begin", "disconnect", "close", "quit", "exit"}

\* C5: however many signals arrive, each drain step runs at most once, the
\* first invocation of gracefulShutdown starts the drain and every later one
\* returns at the guard.
C5_DrainOnce ==
  \A p \in Procs :
    /\ \A step \in DrainSteps : Count(drainLog[p], step) <= 1
    /\ nSignals[p] > 0 => /\ Count(drainLog[p], "begin") = 1
                          /\ nIgnored[p] = nSignals[p] - 1

\* C5 witness: a signal was ignored while the drain was suspended, and the
\* drain then ran to its end.
C5_Witness ==
  \E p \in Procs : nIgnored[p] >= 1 /\ sdpc[p] = "done" /\ exitStatus[p] = {0}

FullDrain == <<"begin", "disconnect", "close", "quit", "exit">>

\* C6: the drain steps happen in the order disconnect, close listener, close
\* broker handles, exit; a drain that ends with status 0 skipped none of them,
\* and the broker handles are closed only after the connections and the listener.
C6_DrainOrder ==
  \A p \in Procs :
    /\ \E n \in 0..Len(FullDrain) : drainLog[p] = SubSeq(FullDrain, 1, n)
    /\ exitStatus[p] = {0} => drainLog[p] = FullDrain
    /\ brokerHandles[p] = "closed" => sockets[p] = {} /\ listener[p] = "closed"

\* C7: status 0 only after a drain with no failing step; a drain that ran all
\* its steps exits 0; a failing drain step or a failing listen exits 1.
C7_ExitStatus ==
  \A p \in Procs :
    /\ exitStatus[p] = {0} => sdpc[p] = "done" /\ ~drainFailed[p] /\ ~listenFailed[p]
    /\ sdpc[p] = "done" => exitStatus[p] = {0}
    /\ drainFailed[p] => exitStatus[p] = {1}
    /\ listenFailed[p] => exitStatus[p] = {1}

\* C7 witness: a drain step rejected and the process exited with status 1.
C7_Witness == \E p \in Procs : drainFailed[p] /\ exitStatus[p] = {1}

\* C8: a broker failure in steady state is caught: no rejection is left
\* unhandled and a process that passed its startup is still running.
C8_NoUnhandledBrokerFailure ==
  \A p \in Procs : unhandled[p] = 0 /\ p \in live

\* C9: the entries of a batch that come after an entry whose fan-out or
\* acknowledgment threw are still fanned out and acknowledged by the loop.
C9_BatchIsolation ==
  \A e \in skipped : Count(emitted[e[2]], e[1]) >= 1 /\ e \in acked

\* C10: the first read that succeeds after a failed read starts at the oldest
\* entry that is not acknowledged.
C10_ResumeFromOldestUnacked ==
  \A p \in Procs : readLog[p].first # 0 => readLog[p].first = readLog[p].oldest

Disconnected(p, c) == owner[c] = p /\ c \notin sockets[p]

LeaveAnnounced(p, c) ==
  \E i \in 1..Len(announced[p]) :
    announced[p][i] = Notification("leave-room", GLOBAL_ROOM, c)

\* C11: once a connection is disconnected, by its client or by the shutdown
\* loop, every join its process announced for it is followed by the announcement
\* of the leave of the same room.
C11_LeaveOnDisconnect ==
  \A p \in Procs, c \in Socks :
    Disconnected(p, c) =>
      \A i \in 1..Len(announced[p]) :
        (announced[p][i].id = c /\ announced[p][i].action = "join-room") =>
          \E j \in (i + 1)..Len(announced[p]) :
            announced[p][j] = Notification("leave-room", announced[p][i].room, c)

\* C11 witness: one connection was closed by its client, another by the
\* shutdown loop, and the leave of each was announced.
C11_Witness ==
  \E p \in Procs, c \in Socks, d \in Socks :
    /\ Disconnected(p, c) /\ c \in forced[p] /\ LeaveAnnounced(p, c)
    /\ Disconnected(p, d) /\ d \notin forced[p] /\ LeaveAnnounced(p, d)

\* Sockets the room table of p knows: those with a room.
Registered(p) == {s \in Socks : rooms[p][s] # {}}

\* C12: a process that handles a peer's join or leave notification keeps its
\* set of local connections and their rooms as they were, and no socket
\* accepted by another process is ever in its registry.
C12_RemoteKeepsRegistry ==
  /\ [](\A p \in Procs : \A s \in sockets[p] \cup Registered(p) : owner[s] = p)
  /\ [][\A p \in Procs :
          remoteLog'[p] # remoteLog[p] =>
            sockets'[p] = sockets[p] /\ rooms'[p] = rooms[p]]_vars

\* C12 witness: a process with a local connection in the global room has
\* handled the join of a connection of its peer.
C12_Witness ==
  \E p \in Procs :
    /\ \E s \in sockets[p] : GLOBAL_ROOM \in rooms[p][s]
    /\ \E i \in 1..Len(remoteLog[p]) :
         remoteLog[p][i].action = "join-room" /\ owner[remoteLog[p][i].id] # p

\* A step in which some consumer hands an entry to the fan-out.
FanOutStep == \E p \in Procs : emitted'[p] # emitted[p]

\* C14: the fan-out of a log entry leaves the local connections of every
\* process, their owners and their room memberships as they were, so handing
\* an entry to it a second time cannot change them either.
C14_FanOutKeepsRegistry ==
  [][FanOutStep => (sockets' = sockets /\ owner' = owner /\ rooms' = rooms)]_vars

\* C14 witness: a consumer has fanned out an entry about one of its own
\* connections, which is still connected and has received it.
C14_Witness ==
  \E p \in Procs, s \in Socks :
    /\ s \in sockets[p]
    /\ emitted[p] # <<>>
    /\ \E i \in 1..Len(recv[s]) : recv[s][i].id = s

\* C15: once gracefulShutdown has begun, the consumer loop finishes the
\* iteration it is in and issues no further group read (it never goes back to
\* the read from the fan-out or the acknowledgment), and the process exits
\* neither between the fan-out of an entry and its acknowledgment nor with
\* entries of the batch still to be processed.
C15_ConsumerStopsInDraining ==
  /\ [][\A p \in Procs :
          (variant = "stream" /\ shutdownInProgress[p] /\ cpc[p] # "read")
            => cpc'[p] # "read"]_vars
  /\ [](\A p \in Procs :
          (variant = "stream" /\ shutdownInProgress[p] /\ exitStatus[p] # {})
            => (cpc[p] = "read" /\ batch[p] = <<>>))

\* C16: the lifecycle only moves Starting -> Ready -> Draining -> Stopped:
\* gracefulShutdown begins only when the listener is bound, after it began the
\* listener never becomes bound and no "ready" is sent, and "ready" is sent at
\* most once and only by a process whose listener did bind.
C16_LifecycleOrder ==
  /\ [][\A p \in Procs :
          (~shutdownInProgress[p] /\ shutdownInProgress'[p])
            => listener[p] = "bound"]_vars
  /\ [][\A p \in Procs :
          shutdownInProgress[p]
            => /\ readySent'[p] = readySent[p]
               /\ listener'[p] = "bound" => listener[p] = "bound"]_vars
  /\ [](\A p \in Procs :
          /\ readySent[p] <= 1
          /\ readySent[p] = 1 => listener[p] \in {"bound", "closed"})

\* The group has handed an entry to consumer p, or p has one in hand.
HasRead(p) ==
  \/ \E i \in 1..Len(stream) : <<i, p>> \in pel \cup acked
  \/ batch[p] # <<>> \/ emitted[p] # <<>>

\* C17: when XGROUP CREATE resolves or is rejected with BUSYGROUP the process
\* stays alive, the group exists and the consumer loop goes to its first
\* read; any other rejection ends the process with status 1; and a consumer
\* has read from the group only after its registration completed.
C17_GroupRegistration ==
  /\ [][\A p \in Procs :
          initResult'[p] # initResult[p] =>
            IF initResult'[p] \in {"none", "BUSYGROUP"}
            THEN p \in live' /\ exitStatus'[p] = {} /\ groupCreated'
                 /\ cpc[p] = "init" /\ cpc'[p] = "read"
            ELSE p \notin live' /\ exitStatus'[p] = {1} /\ ~HasRead(p)']_vars
  /\ [](\A p \in Procs :
          /\ cpc[p] # "init" => initResult[p] \in {"none", "BUSYGROUP"}
          /\ HasRead(p) => initResult[p] \in {"none", "BUSYGROUP"})

\* C17 witness: a process that found the group already there went on and
\* has read its first entry from it.
C17_Witness ==
  \E p \in Procs : initResult[p] = "BUSYGROUP" /\ HasRead(p) /\ variant = "stream"

\* Consumers the group has handed entry i to.
DeliveredTo(i) == {q \in Procs : <<i, q>> \in pel \cup acked}

\* Number of times entry i went through the fan-out, over all consumers.
FanOuts(i) ==
  Cardinality({<<q, k>> \in Procs \X (1..Len(stream)) :
                 k <= Len(emitted[q]) /\ emitted[q][k] = i})

\* C18: every stream entry is handed to at most one consumer of the group and
\* goes through the fan-out at most once over all consumers, only at the
\* consumer it was handed to; an acknowledgment comes from the consumer the
\* entry is pending for; and the ids a consumer fans out strictly increase.
C18_AtMostOnce ==
  /\ [](\A i \in 1..Len(stream) :
          /\ Cardinality(DeliveredTo(i)) <= 1
          /\ FanOuts(i) <= 1)
  /\ [](\A p \in Procs :
          /\ \A k \in 1..Len(emitted[p]) : p \in DeliveredTo(emitted[p][k])
          /\ \A k \in 1..(Len(emitted[p]) - 1) : emitted[p][k] < emitted[p][k + 1])
  /\ [][\A i \in 1..Len(stream), q \in Procs :
          (<<i, q>> \in acked' /\ <<i, q>> \notin acked) => <<i, q>> \in pel]_vars

\* C18 witness: each of the two consumers has fanned out an entry, and one of
\* them was acknowledged.
C18_Witness ==
  /\ \A p \in Procs : emitted[p] # <<>>
  /\ acked # {}

\* A step in which process p takes a broker message off its subscriber client.
TakesMessage(p) == Len(chan'[p]) < Len(chan[p])

\* C19: the "message" listeners registered on the subscriber client of a
\* process are exactly one per connected local connection, and a broker
\* message taken by a process with no local connection is fanned out to
\* nobody: no client receives anything and nothing is forwarded to a peer.
C19_HandlerAccounting ==
  /\ [](variant = "pubsub" =>
          \A p \in Procs :
            /\ handlers[p] = sockets[p]
            /\ Cardinality(handlers[p]) = Cardinality(sockets[p]))
  /\ [][\A p \in Procs :
          (TakesMessage(p) /\ sockets[p] = {})
            => (recv' = recv /\ adapterQ' = adapterQ)]_vars

\* C19 witness: a subscribed process whose only connection came and went has
\* published the disconnect and has taken every message off its subscriber
\* client, the last of them with no connection and no listener left.
C19_Witness ==
  \E p \in Procs, s \in Socks :
    /\ owner[s] = p /\ sockets[p] = {} /\ handlers[p] = {}
    /\ subscribed[p] = "ok" /\ chan[p] = <<>>
    /\ \E i \in 1..Len(published) :
         published[i].ev = [id |-> s, message |-> DisconnectText(s)]

\* Connections of process p that are in the global room.
InGlobalRoom(p) == {d \in sockets[p] : GLOBAL_ROOM \in rooms[p][d]}

\* The packet socket.to(GLOBAL_ROOM).emit(event, ...) of connection c makes.
RoomPacket(event, c) ==
  [data |-> [event |-> event, id |-> c], room |-> GLOBAL_ROOM, except |-> c]

\* Connection c of process p connects or disconnects in this step and event is
\* what its handler emits: c receives nothing, every other connection of p in
\* the global room receives the event, and every peer is sent the packet.
Notifies(p, c, event) ==
  /\ recv'[c] = recv[c]
  /\ \A d \in InGlobalRoom(p) \ {c} :
       recv'[d] = Append(recv[d], [event |-> event, id |-> c])
  /\ \A q \in Peers(p) : adapterQ'[q] = Append(adapterQ[q], RoomPacket(event, c))

\* Process q takes a peer's packet off its adapter in this step: every one of
\* its connections in the global room receives the event.
Relays(q) ==
  Len(adapterQ'[q]) < Len(adapterQ[q]) =>
    \A d \in InGlobalRoom(q) : recv'[d] = Append(recv[d], Head(adapterQ[q]).data)

\* C20: (a) no announcement to the peers names a connection's own room;
\* (b) no connection ever receives a "user-joined" or "user-left" about itself,
\* while every other connection that is in the global room when the event is
\* emitted on its process, or relayed to its process, receives it.
C20_RoomNotifications ==
  /\ [](variant = "room" =>
          /\ \A p \in Procs : \A i \in 1..Len(announced[p]) :
               announced[p][i].room # announced[p][i].id
          /\ \A c \in Socks : \A i \in 1..Len(recv[c]) : recv[c][i].id # c)
  /\ [][variant = "room" =>
          \A p \in Procs :
            /\ Relays(p)
            /\ \A c \in Socks :
                 /\ (c \notin sockets[p] /\ c \in sockets'[p])
                      => Notifies(p, c, "user-joined")
                 /\ (c \in sockets[p] /\ c \notin sockets'[p])
                      => Notifies(p, c, "user-left")]_vars

\* C20 witness: a connection has received the "user-joined" and then the
\* "user-left" of a connection of the other process, whose join and leave of
\* the global room were announced, and that connection has received neither.
C20_Witness ==
  /\ variant = "room"
  /\ \E c \in Socks, d \in Socks :
       /\ c # d /\ owner[c] # owner[d]
       /\ \E i \in 1..Len(recv[d]), j \in 1..Len(recv[d]) :
            /\ i < j
            /\ recv[d][i] = [event |-> "user-joined", id |-> c]
            /\ recv[d][j] = [event |-> "user-left", id |-> c]
       /\ Len(announced[owner[c]]) >= 2
       /\ recv[c] = <<>>

====
